---- MODULE Spec2Model ----
(***************************************************************************)
(* State-machine model of the HID command-packet layer of QmkHidGear:      *)
(* QMKKeyboard (src/QMK_Interface.py) and the handlers that QMKGear        *)
(* (src/QMKGear.py) registers on it.                                       *)
(*                                                                         *)
(* A session is one QMKKeyboard object.  The hid library is the            *)
(* environment: what hid.enumerate() lists, whether hid.Device(path)       *)
(* opens, whether a write or a read on a handle fails and which bytes a    *)
(* read returns are chosen with \E.  Every call on a session leaves a      *)
(* record of its arguments, its result and the transport calls it made in  *)
(* the variable last; Return is the caller taking that result.             *)
(***************************************************************************)
EXTENDS Integers, Sequences, FiniteSets, TLC

VARIABLES qmk, connected, callbacks, last, pc, idx, fronters_qmk_id

vars == <<qmk, connected, callbacks, last, pc, idx, fronters_qmk_id>>

\* the variables of the main loop of QMKGear: where it is, the index of the
\* keyboard its for loop is at, and the global fronters_qmk_id
loop == <<pc, idx, fronters_qmk_id>>

(***************************************************************************)
(* Bounds of the model.                                                    *)
(***************************************************************************)
MaxPayloadLen == 31    \* longest command_data handed to send_command
MaxData == 2           \* most bytes after the two header bytes of a read
MaxMask == 4           \* the same, of a read that starts with PC_Notify_Layer_Change
MaxEnum == 2           \* most entries hid.enumerate() returns
MaxLeds == 15          \* longest led_values handed to set_RGB_LEDs
MaxHue == 510          \* largest sum handed to overflow_int8

(***************************************************************************)
(* Program constants.                                                      *)
(***************************************************************************)
packet_size == 32

Do_Nothing == 0
KB_Set_Fronter == 1
KB_Set_All_RGB_LEDs == 2
KB_Set_RGB_LEDs == 3
KB_Activity_Ping == 4
PC_Raw_Debug_Msg == 120
PC_Debug_Msg == 121
PC_Switch_Fronter == 122
PC_Notify_Layer_Change == 123
PC_Activity_Ping == 124

usage_page == 65376    \* 0xFF60
usage == 97            \* 0x61

\* the values of the SystemMembers enumeration
SystemMembers == {0, 1, 2, 3}

\* keyboard_type of the two sessions QMKGear creates, in list order
keyboards == <<"lily58", "navi10">>

Keyboards == {keyboards[i] : i \in 1..Len(keyboards)}

vendor_id(k) == IF k = "lily58" THEN 1240 ELSE 65261    \* 0x04D8, 0xFEED

product_id(k) == IF k = "lily58" THEN 60205 ELSE 0      \* 0xEB2D, 0x0000

\* QMKKeyboard.__eq__: same vendor id and same product id
SameKeyboard(a, b) == vendor_id(a) = vendor_id(b) /\ product_id(a) = product_id(b)

(***************************************************************************)
(* Values.  None is the empty sequence, a value v is <<v>>.                *)
(***************************************************************************)
None == <<>>

Some(v) == <<v>>

IsByte(x) == x \in 0..255

AllBytes(s) == \A i \in 1..Len(s) : IsByte(s[i])

\* the record of a call that has not been made
NoCall ==
    [op |-> "none", kb |-> "none", command |-> 0, absent |-> FALSE,
     data |-> <<>>, buf |-> <<>>, got |-> FALSE, before |-> FALSE,
     exc |-> "none", ret |-> <<>>, writes |-> <<>>, reads |-> <<>>, cb |-> <<>>,
     leds |-> <<>>, first |-> 0]

(***************************************************************************)
(* The session as a value: w.qmk and w.connected are the fields of every   *)
(* session, w.writes and w.reads the calls made on the hid handles.        *)
(***************************************************************************)
World == [qmk |-> qmk, connected |-> connected, writes |-> <<>>, reads |-> <<>>]

\* construct_command_packet that states the capacity of the buffer as the length
construct_command_packet_capacity(command_type, command_data) ==
    <<0, command_type, packet_size - 3>> \o command_data

(***************************************************************************)
(* construct_command_packet: report id, command type, data length, data.   *)
(***************************************************************************)
construct_command_packet(command_type, command_data) ==
    <<0, command_type, Len(command_data)>> \o command_data

\* the hid write of write: the packet as bytes is handed to the handle
hid_write(w, k, data_to_write, hidOk) ==
    IF ~AllBytes(data_to_write)
    THEN [w |-> w, exc |-> "ValueError", ret |-> None]
    ELSE IF w.qmk[k] = "open" /\ hidOk
    THEN [w |-> [w EXCEPT !.writes =
                     Append(@, [kb |-> k, packet |-> data_to_write, ok |-> TRUE])],
          exc |-> "none", ret |-> Some(Len(data_to_write))]
    ELSE [w |-> [w EXCEPT !.writes =
                     Append(@, [kb |-> k, packet |-> data_to_write, ok |-> FALSE]),
                          !.connected[k] = FALSE],
          exc |-> "KeyboardDisconnected", ret |-> None]

\* write that leaves the connected flag alone when the hid write fails
write_keeps_connected(w, k, data_to_write, hidOk) ==
    IF Len(data_to_write) > packet_size
    THEN [w |-> w, exc |-> "DataPacketTooLarge", ret |-> None]
    ELSE IF w.qmk[k] # "None"
    THEN LET r == hid_write(w, k, data_to_write, hidOk)
         IN  [r EXCEPT !.w.connected[k] = w.connected[k]]
    ELSE [w |-> [w EXCEPT !.connected[k] = FALSE],
          exc |-> "KeyboardDisconnected", ret |-> None]

\* write that compares the length of the payload, not of the packet, to packet_size
write_checks_payload(w, k, data_to_write, hidOk) ==
    IF Len(data_to_write) - 3 > packet_size
    THEN [w |-> w, exc |-> "DataPacketTooLarge", ret |-> None]
    ELSE IF w.qmk[k] # "None"
    THEN hid_write(w, k, data_to_write, hidOk)
    ELSE [w |-> [w EXCEPT !.connected[k] = FALSE],
          exc |-> "KeyboardDisconnected", ret |-> None]

(***************************************************************************)
(* write: the size check, then the handle check, then bytes(bytearray())   *)
(* and the hid write.  hidOk is the outcome of hid.Device.write on an      *)
(* open handle; a closed handle always raises HIDException.                *)
(***************************************************************************)
write(w, k, data_to_write, hidOk) ==
    IF Len(data_to_write) > packet_size
    THEN [w |-> w, exc |-> "DataPacketTooLarge", ret |-> None]
    ELSE IF w.qmk[k] # "None"
    THEN hid_write(w, k, data_to_write, hidOk)
    ELSE [w |-> [w EXCEPT !.connected[k] = FALSE],
          exc |-> "KeyboardDisconnected", ret |-> None]

(***************************************************************************)
(* send_command: an absent command_data (None) becomes [0].                *)
(***************************************************************************)
send_command(w, k, command_type, absent, command_data, hidOk) ==
    LET data == IF absent THEN <<0>> ELSE command_data
    IN  write(w, k, construct_command_packet(command_type, data), hidOk)

\* send_activity_ping that sends the command the keyboard uses for its ping
send_activity_ping_echo(w, k, hidOk) ==
    send_command(w, k, PC_Activity_Ping, TRUE, <<>>, hidOk)

send_activity_ping(w, k, hidOk) ==
    send_command(w, k, KB_Activity_Ping, TRUE, <<>>, hidOk)

\* read that leaves the connected flag alone when the hid read fails
read_keeps_connected(w, k, hidOk, data) ==
    IF w.qmk[k] # "None"
    THEN IF w.qmk[k] = "open" /\ hidOk
         THEN [w |-> [w EXCEPT !.reads = Append(@, [kb |-> k, ok |-> TRUE])],
               exc |-> "none", ret |-> data]
         ELSE [w |-> [w EXCEPT !.reads = Append(@, [kb |-> k, ok |-> FALSE])],
               exc |-> "KeyboardDisconnected", ret |-> <<>>]
    ELSE [w |-> [w EXCEPT !.connected[k] = FALSE],
          exc |-> "KeyboardDisconnected", ret |-> <<>>]

(***************************************************************************)
(* send_current_fronter: SystemMembers(qmk_system_id).name is evaluated    *)
(* for the log, then the id is sent as KB_Set_Fronter.                     *)
(***************************************************************************)
send_current_fronter(w, k, qmk_system_id, hidOk) ==
    IF qmk_system_id \notin SystemMembers
    THEN [w |-> w, exc |-> "ValueError", ret |-> None]
    ELSE send_command(w, k, KB_Set_Fronter, FALSE, <<qmk_system_id>>, hidOk)

\* leds_per_command that forgets the three header bytes
leds_per_command_whole == packet_size \div 4

\* math.floor((self.packet_size - 3) / 4)
leds_per_command == (packet_size - 3) \div 4

\* command_data of the first n LEDs: first_led + i, Hue, Sat, Val for i = 0..n-1
RECURSIVE led_data(_, _, _)
led_data(led_values, first_led, n) ==
    IF n = 0 THEN <<>>
    ELSE led_data(led_values, first_led, n - 1)
             \o <<first_led + (n - 1), led_values[n].Hue, led_values[n].Sat, led_values[n].Val>>

\* set_RGB_LEDs that numbers the LEDs of every packet from first_led again
RECURSIVE set_RGB_LEDs_restart(_, _, _, _, _)
set_RGB_LEDs_restart(w, k, led_values, first_led, failAt) ==
    LET hidOk == Len(w.writes) + 1 # failAt
    IN  IF Len(led_values) > leds_per_command
        THEN LET r == send_command(w, k, KB_Set_RGB_LEDs, FALSE,
                                   led_data(led_values, first_led, leds_per_command), hidOk)
             IN  IF r.exc # "none" THEN r
                 ELSE set_RGB_LEDs_restart(r.w, k, SubSeq(led_values, leds_per_command + 1,
                                                          Len(led_values)),
                                           first_led, failAt)
        ELSE [send_command(w, k, KB_Set_RGB_LEDs, FALSE,
                           led_data(led_values, first_led, Len(led_values)), hidOk)
                 EXCEPT !.ret = None]

\* set_RGB_LEDs that sends off a packet as soon as it holds leds_per_command LEDs
RECURSIVE set_RGB_LEDs_eager(_, _, _, _, _)
set_RGB_LEDs_eager(w, k, led_values, first_led, failAt) ==
    LET hidOk == Len(w.writes) + 1 # failAt
    IN  IF Len(led_values) >= leds_per_command
        THEN LET r == send_command(w, k, KB_Set_RGB_LEDs, FALSE,
                                   led_data(led_values, first_led, leds_per_command), hidOk)
             IN  IF r.exc # "none" THEN r
                 ELSE set_RGB_LEDs_eager(r.w, k, SubSeq(led_values, leds_per_command + 1,
                                                        Len(led_values)),
                                         first_led + leds_per_command, failAt)
        ELSE [send_command(w, k, KB_Set_RGB_LEDs, FALSE,
                           led_data(led_values, first_led, Len(led_values)), hidOk)
                 EXCEPT !.ret = None]

(***************************************************************************)
(* set_RGB_LEDs: when the loop reaches index leds_per_command the LEDs     *)
(* before it are sent and the rest is handed to a recursive call;          *)
(* otherwise all LEDs are sent in one packet.  An exception of             *)
(* send_command ends the call.  failAt is the number of the hid write that *)
(* fails (0: none).                                                        *)
(***************************************************************************)
RECURSIVE set_RGB_LEDs(_, _, _, _, _)
set_RGB_LEDs(w, k, led_values, first_led, failAt) ==
    LET hidOk == Len(w.writes) + 1 # failAt
    IN  IF Len(led_values) > leds_per_command
        THEN LET r == send_command(w, k, KB_Set_RGB_LEDs, FALSE,
                                   led_data(led_values, first_led, leds_per_command), hidOk)
             IN  IF r.exc # "none" THEN r
                 ELSE set_RGB_LEDs(r.w, k, SubSeq(led_values, leds_per_command + 1,
                                                  Len(led_values)),
                                   first_led + leds_per_command, failAt)
        ELSE [send_command(w, k, KB_Set_RGB_LEDs, FALSE,
                           led_data(led_values, first_led, Len(led_values)), hidOk)
                 EXCEPT !.ret = None]

(***************************************************************************)
(* read: hidOk is the outcome of hid.Device.read on an open handle, data   *)
(* the bytes it returns.                                                   *)
(***************************************************************************)
read(w, k, hidOk, data) ==
    IF w.qmk[k] # "None"
    THEN IF w.qmk[k] = "open" /\ hidOk
         THEN [w |-> [w EXCEPT !.reads = Append(@, [kb |-> k, ok |-> TRUE])],
               exc |-> "none", ret |-> data]
         ELSE [w |-> [w EXCEPT !.reads = Append(@, [kb |-> k, ok |-> FALSE]),
                               !.connected[k] = FALSE],
               exc |-> "KeyboardDisconnected", ret |-> <<>>]
    ELSE [w |-> [w EXCEPT !.connected[k] = FALSE],
          exc |-> "KeyboardDisconnected", ret |-> <<>>]

(***************************************************************************)
(* open: the first enumerated entry that matches vendor id, product id,    *)
(* usage page and usage and has a path is opened.  deviceOk is the outcome *)
(* of hid.Device(path=...), which raises HIDException when it fails.       *)
(***************************************************************************)
Matches(k, hid_item) ==
    /\ vendor_id(k) = hid_item.vendor_id
    /\ product_id(k) = hid_item.product_id
    /\ usage_page = hid_item.usage_page
    /\ usage = hid_item.usage
    /\ hid_item.path # "None"

open(w, k, enumerated_devices, deviceOk) ==
    LET found == {i \in 1..Len(enumerated_devices) : Matches(k, enumerated_devices[i])}
    IN  IF found # {}
        THEN IF deviceOk
             THEN [w |-> [w EXCEPT !.qmk[k] = "open", !.connected[k] = TRUE],
                   exc |-> "none"]
             ELSE [w |-> w, exc |-> "HIDException"]
        ELSE [w |-> [w EXCEPT !.connected[k] = FALSE], exc |-> "CouldNotFindKeyboard"]

(***************************************************************************)
(* connect: True when open returns, False when it raises                   *)
(* CouldNotFindKeyboard; any other exception of open passes through.       *)
(***************************************************************************)
connect(w, k, enumerated_devices, deviceOk) ==
    LET r == open(w, k, enumerated_devices, deviceOk)
    IN  IF r.exc = "none" THEN [w |-> r.w, exc |-> "none", ret |-> Some(TRUE)]
        ELSE IF r.exc = "CouldNotFindKeyboard"
        THEN [w |-> r.w, exc |-> "none", ret |-> Some(FALSE)]
        ELSE [w |-> r.w, exc |-> r.exc, ret |-> None]

(***************************************************************************)
(* disconnect: the flag is cleared, then the handle is closed; with no     *)
(* handle (qmk is None) the close raises AttributeError.                   *)
(***************************************************************************)
disconnect(w, k) ==
    IF w.qmk[k] = "None"
    THEN [w |-> [w EXCEPT !.connected[k] = FALSE], exc |-> "AttributeError"]
    ELSE [w |-> [w EXCEPT !.connected[k] = FALSE, !.qmk[k] = "closed"], exc |-> "none"]

(***************************************************************************)
(* Helpers of the decoder.                                                 *)
(***************************************************************************)
\* s[:n] for n >= 0
Take(s, n) == SubSeq(s, 1, IF n < Len(s) THEN n ELSE Len(s))

\* s[n:] for n >= 0
Drop(s, n) == SubSeq(s, n + 1, Len(s))

\* An unbounded non-negative integer n (a layer mask) is the sequence of its
\* base-65536 digits, least significant first, without leading zero digits:
\* 0 is <<>>, 513 is <<513>>, 65536 is <<0, 1>>.
RECURSIVE Normal(_)
Normal(n) ==
    IF n # <<>> /\ n[Len(n)] = 0 THEN Normal(SubSeq(n, 1, Len(n) - 1)) ELSE n

RECURSIVE Digits(_)
Digits(s) ==
    IF s = <<>> THEN <<>>
    ELSE IF Len(s) = 1 THEN <<s[1]>>
    ELSE <<s[1] + 256 * s[2]>> \o Digits(Drop(s, 2))

\* int.from_bytes(s, byteorder='little', signed=False)
from_bytes_little(s) == Normal(Digits(s))

IsCont(s, i) == i <= Len(s) /\ s[i] \in 128..191

\* bytes(s).decode() succeeds: s is well-formed UTF-8
RECURSIVE Utf8Valid(_)
Utf8Valid(s) ==
    IF s = <<>> THEN TRUE
    ELSE LET b == s[1]
         IN  IF b < 128 THEN Utf8Valid(Drop(s, 1))
             ELSE IF b \in 194..223
             THEN IsCont(s, 2) /\ Utf8Valid(Drop(s, 2))
             ELSE IF b \in 224..239
             THEN /\ IsCont(s, 2) /\ IsCont(s, 3)
                  /\ (b = 224 => s[2] >= 160)
                  /\ (b = 237 => s[2] <= 159)
                  /\ Utf8Valid(Drop(s, 3))
             ELSE IF b \in 240..244
             THEN /\ IsCont(s, 2) /\ IsCont(s, 3) /\ IsCont(s, 4)
                  /\ (b = 240 => s[2] >= 144)
                  /\ (b = 244 => s[2] <= 143)
                  /\ Utf8Valid(Drop(s, 4))
             ELSE FALSE

\* the callbacks[command_id](self, ...) call, made when command_id is registered
Invoke(cbs, command_id, args) ==
    IF command_id \in cbs THEN <<[command |-> command_id, args |-> args]>> ELSE <<>>

Info(command_id, data) == Some([command |-> command_id, data |-> data])

Nothing == [exc |-> "none", ret |-> None, cb |-> <<>>]

Raise(e) == [exc |-> e, ret |-> None, cb |-> <<>>]

\* the layer mask that takes every byte after the header, whatever data_length says
layer_mask_whole(command_data, data_length) == from_bytes_little(command_data)

\* the layer mask of PC_Notify_Layer_Change: command_data[:data_length], little-endian
layer_mask_of(command_data, data_length) ==
    from_bytes_little(Take(command_data, data_length))

\* the branch of PC_Debug_Msg: the message is decoded as UTF-8 for the log
debug_msg(command_data) ==
    IF Utf8Valid(command_data) THEN Nothing ELSE Raise("UnicodeDecodeError")

\* the branch of PC_Switch_Fronter: SystemMembers(id) is evaluated for the log
switch_fronter(command_id, command_data, cbs) ==
    LET new_fronter_qmk_id == command_data[1]
    IN  IF new_fronter_qmk_id \notin SystemMembers
        THEN Raise("ValueError")
        ELSE [exc |-> "none",
              ret |-> Info(command_id, Some(new_fronter_qmk_id)),
              cb |-> Invoke(cbs, command_id, <<new_fronter_qmk_id>>)]

\* the branch of PC_Notify_Layer_Change
layer_change(command_id, data_length, command_data, cbs) ==
    LET layer_mask == layer_mask_of(command_data, data_length)
    IN  [exc |-> "none",
         ret |-> Info(command_id, Some(layer_mask)),
         cb |-> Invoke(cbs, command_id, <<layer_mask>>)]

\* the branch of PC_Activity_Ping
activity_ping(command_id, cbs) ==
    [exc |-> "none", ret |-> Info(command_id, None), cb |-> Invoke(cbs, command_id, <<>>)]

\* decode_command that returns None for a command it does not know
decode_command_silent(received_data, cbs) ==
    LET command_id == received_data[1]
        data_length == received_data[2]
        command_data == Drop(received_data, 2)
    IN  IF command_id = PC_Debug_Msg THEN debug_msg(command_data)
        ELSE IF command_id = PC_Switch_Fronter
        THEN switch_fronter(command_id, command_data, cbs)
        ELSE IF command_id = PC_Notify_Layer_Change
        THEN layer_change(command_id, data_length, command_data, cbs)
        ELSE IF command_id = PC_Activity_Ping THEN activity_ping(command_id, cbs)
        ELSE Nothing

(***************************************************************************)
(* parse_commands on a buffer of three bytes or more: the header is split  *)
(* off and the command id selects the branch.                              *)
(***************************************************************************)
decode_command(received_data, cbs) ==
    LET command_id == received_data[1]
        data_length == received_data[2]
        command_data == Drop(received_data, 2)
    IN  IF command_id = Do_Nothing THEN Nothing
        ELSE IF command_id = PC_Raw_Debug_Msg THEN Nothing
        ELSE IF command_id = PC_Debug_Msg THEN debug_msg(command_data)
        ELSE IF command_id = PC_Switch_Fronter
        THEN switch_fronter(command_id, command_data, cbs)
        ELSE IF command_id = PC_Notify_Layer_Change
        THEN layer_change(command_id, data_length, command_data, cbs)
        ELSE IF command_id = PC_Activity_Ping THEN activity_ping(command_id, cbs)
        ELSE Raise("UnknownCommand")

\* decode that takes a read of one or two bytes for an empty read
decode_lenient(received_data, cbs) ==
    IF Len(received_data) < 3 THEN Nothing ELSE decode_command(received_data, cbs)

(***************************************************************************)
(* The decoding part of parse_commands, from the bytes that read returned: *)
(* the exception raised, the command info returned and the callback call   *)
(* made (cbs is the set of commands that have a callback).                 *)
(***************************************************************************)
decode(received_data, cbs) ==
    IF Len(received_data) = 0 THEN Nothing
    ELSE IF Len(received_data) < 3 THEN Raise("CorruptResponse")
    ELSE decode_command(received_data, cbs)

\* PingFrom that pings the pinging keyboard as well
RECURSIVE PingFrom_all(_, _, _, _)
PingFrom_all(w, pinging_qmk, i, hidOk) ==
    IF i > Len(keyboards) THEN [w |-> w, exc |-> "none"]
    ELSE LET r == send_activity_ping(w, keyboards[i], hidOk[keyboards[i]])
         IN  IF r.exc \in {"none", "KeyboardDisconnected"}
             THEN PingFrom_all(r.w, pinging_qmk, i + 1, hidOk)
             ELSE [w |-> r.w, exc |-> r.exc]

(***************************************************************************)
(* handle_activity_ping: an activity ping to every keyboard of the list    *)
(* that is not equal to the pinging one; KeyboardDisconnected is dropped.  *)
(* hidOk[kk] is the outcome of the hid write on keyboard kk.               *)
(***************************************************************************)
RECURSIVE PingFrom(_, _, _, _)
PingFrom(w, pinging_qmk, i, hidOk) ==
    IF i > Len(keyboards) THEN [w |-> w, exc |-> "none"]
    ELSE IF ~SameKeyboard(keyboards[i], pinging_qmk)
    THEN LET r == send_activity_ping(w, keyboards[i], hidOk[keyboards[i]])
         IN  IF r.exc \in {"none", "KeyboardDisconnected"}
             THEN PingFrom(r.w, pinging_qmk, i + 1, hidOk)
             ELSE [w |-> r.w, exc |-> r.exc]
    ELSE PingFrom(w, pinging_qmk, i + 1, hidOk)

handle_activity_ping(w, pinging_qmk, hidOk) == PingFrom(w, pinging_qmk, 1, hidOk)

\* parse_commands that lets the KeyboardDisconnected of read pass to its caller
parse_commands_raises(w, k, cbs, readOk, data, hidOk) ==
    LET r == read(w, k, readOk, data)
    IN  IF r.exc = "KeyboardDisconnected"
        THEN [w |-> r.w, got |-> FALSE, exc |-> r.exc, ret |-> None, cb |-> <<>>]
        ELSE LET d == decode(r.ret, cbs)
                 h == IF d.cb # <<>> /\ d.cb[1].command = PC_Activity_Ping
                      THEN handle_activity_ping(r.w, k, hidOk)
                      ELSE [w |-> r.w, exc |-> "none"]
             IN  IF h.exc = "none"
                 THEN [w |-> h.w, got |-> TRUE, exc |-> d.exc, ret |-> d.ret, cb |-> d.cb]
                 ELSE [w |-> h.w, got |-> TRUE, exc |-> h.exc, ret |-> None, cb |-> d.cb]

\* parse_commands that reads once more when the first read came back empty
parse_commands_twice(w, k, cbs, readOk, data, hidOk) ==
    LET r0 == read(w, k, readOk, data)
        r == IF r0.exc = "none" /\ r0.ret = <<>> THEN read(r0.w, k, readOk, data) ELSE r0
    IN  IF r.exc = "KeyboardDisconnected"
        THEN [w |-> r.w, got |-> FALSE, exc |-> "none", ret |-> None, cb |-> <<>>]
        ELSE LET d == decode(r.ret, cbs)
                 h == IF d.cb # <<>> /\ d.cb[1].command = PC_Activity_Ping
                      THEN handle_activity_ping(r.w, k, hidOk)
                      ELSE [w |-> r.w, exc |-> "none"]
             IN  IF h.exc = "none"
                 THEN [w |-> h.w, got |-> TRUE, exc |-> d.exc, ret |-> d.ret, cb |-> d.cb]
                 ELSE [w |-> h.w, got |-> TRUE, exc |-> h.exc, ret |-> None, cb |-> d.cb]

\* parse_commands that marks the session disconnected when the decoding raises
parse_commands_drops(w, k, cbs, readOk, data, hidOk) ==
    LET r == read(w, k, readOk, data)
    IN  IF r.exc = "KeyboardDisconnected"
        THEN [w |-> r.w, got |-> FALSE, exc |-> "none", ret |-> None, cb |-> <<>>]
        ELSE LET d == decode(r.ret, cbs)
                 h == IF d.cb # <<>> /\ d.cb[1].command = PC_Activity_Ping
                      THEN handle_activity_ping(r.w, k, hidOk)
                      ELSE [w |-> r.w, exc |-> "none"]
             IN  IF d.exc # "none"
                 THEN [w |-> [h.w EXCEPT !.connected[k] = FALSE], got |-> TRUE,
                       exc |-> d.exc, ret |-> None, cb |-> d.cb]
                 ELSE [w |-> h.w, got |-> TRUE, exc |-> h.exc, ret |-> d.ret, cb |-> d.cb]

(***************************************************************************)
(* parse_commands: one read; a KeyboardDisconnected of the read gives      *)
(* None; otherwise the bytes are decoded and the callback of the command   *)
(* runs.  handle_layer_change and handle_switch_fronter touch no session.  *)
(***************************************************************************)
parse_commands(w, k, cbs, readOk, data, hidOk) ==
    LET r == read(w, k, readOk, data)
    IN  IF r.exc = "KeyboardDisconnected"
        THEN [w |-> r.w, got |-> FALSE, exc |-> "none", ret |-> None, cb |-> <<>>]
        ELSE LET d == decode(r.ret, cbs)
                 h == IF d.cb # <<>> /\ d.cb[1].command = PC_Activity_Ping
                      THEN handle_activity_ping(r.w, k, hidOk)
                      ELSE [w |-> r.w, exc |-> "none"]
             IN  IF h.exc = "none"
                 THEN [w |-> h.w, got |-> TRUE, exc |-> d.exc, ret |-> d.ret, cb |-> d.cb]
                 ELSE [w |-> h.w, got |-> TRUE, exc |-> h.exc, ret |-> None, cb |-> d.cb]

(***************************************************************************)
(* Inputs.                                                                 *)
(***************************************************************************)
Seqs(S, n) == UNION {[1..m -> S] : m \in 0..n}

\* what hid.enumerate() can list
HidItems ==
    { [vendor_id |-> 1240, product_id |-> 60205, usage_page |-> 65376, usage |-> 97, path |-> "lily-raw"],
      [vendor_id |-> 1240, product_id |-> 60205, usage_page |-> 65376, usage |-> 97, path |-> "None"],
      [vendor_id |-> 1240, product_id |-> 60205, usage_page |-> 1, usage |-> 97, path |-> "lily-kbd"],
      [vendor_id |-> 1240, product_id |-> 60205, usage_page |-> 65376, usage |-> 6, path |-> "lily-alt"],
      [vendor_id |-> 65261, product_id |-> 0, usage_page |-> 65376, usage |-> 97, path |-> "navi-raw"],
      [vendor_id |-> 65261, product_id |-> 60205, usage_page |-> 65376, usage |-> 97, path |-> "feed-other"],
      [vendor_id |-> 1240, product_id |-> 0, usage_page |-> 65376, usage |-> 97, path |-> "mchp-other"] }

Enumerations == Seqs(HidItems, MaxEnum)

\* command types handed to send_command
OutCommands == {KB_Set_Fronter, KB_Set_All_RGB_LEDs, KB_Set_RGB_LEDs, KB_Activity_Ping,
                PC_Activity_Ping}

\* command_data of n elements: 0, 1, 2, ...; all 255; 0, 1, 2, ... ending in 256
Ramp(n) == [i \in 1..n |-> (i - 1) % 256]

Full(n) == [i \in 1..n |-> 255]

Wide(n) == [i \in 1..n |-> IF i = n THEN 256 ELSE (i - 1) % 256]

Payloads == UNION {{Ramp(n), Full(n), Wide(n)} : n \in 0..MaxPayloadLen}

\* led_values of n LEDs: the hue goes up by 2 from LED to LED
Rainbow(n) == [i \in 1..n |-> [Hue |-> (2 * (i - 1)) % 256, Sat |-> 255, Val |-> 255]]

\* first_led handed to set_RGB_LEDs
FirstLeds == {0, 3, 250}

\* qmk_system_id handed to send_current_fronter
FronterIds == {0, 1, 3, 4}

\* bytes a read can return
InCommands == {Do_Nothing, KB_Set_Fronter, PC_Raw_Debug_Msg, PC_Debug_Msg,
               PC_Switch_Fronter, PC_Notify_Layer_Change, PC_Activity_Ping, 125}

InBytes == {1, 2, 255}

MaxIn(c) == IF c = PC_Notify_Layer_Change THEN MaxMask ELSE MaxData

Buffers ==
    {<<>>} \cup {<<c>> : c \in InCommands}
           \cup UNION {{<<c, l>> \o d : l \in 0..MaxIn(c), d \in Seqs(InBytes, MaxIn(c))} :
                         c \in InCommands}

\* the reads of at most one byte after the header
ShortBuffers == {b \in Buffers : Len(b) <= 3}

\* callbacks handed to the constructor: none, those of QMKGear, one per command
CallbackSets ==
    { {},
      {PC_Notify_Layer_Change, PC_Switch_Fronter, PC_Activity_Ping},
      PC_Raw_Debug_Msg..PC_Activity_Ping }

(***************************************************************************)
(* The state after construction of the two sessions.                       *)
(***************************************************************************)
Init ==
    /\ qmk = [k \in Keyboards |-> "None"]
    /\ connected = [k \in Keyboards |-> FALSE]
    /\ callbacks \in CallbackSets
    /\ last = NoCall
    /\ pc = "reconnect"
    /\ idx = 1
    /\ fronters_qmk_id = -1

\* the read gives an activity ping that has a callback: hid writes follow
Pings(cbs, readOk, data) ==
    readOk /\ Len(data) >= 3 /\ data[1] = PC_Activity_Ping /\ PC_Activity_Ping \in cbs

Idle == last.op = "none"

Called(op, k) == [NoCall EXCEPT !.op = op, !.kb = k, !.before = connected[k]]

Connect(k) ==
    /\ Idle
    /\ \E enumerated_devices \in Enumerations, deviceOk \in BOOLEAN :
          LET r == connect(World, k, enumerated_devices, deviceOk)
          IN  /\ qmk' = r.w.qmk
              /\ connected' = r.w.connected
              /\ last' = [Called("connect", k) EXCEPT !.exc = r.exc, !.ret = r.ret]
    /\ UNCHANGED <<callbacks, loop>>

Disconnect(k) ==
    /\ Idle
    /\ LET r == disconnect(World, k)
       IN  /\ qmk' = r.w.qmk
           /\ connected' = r.w.connected
           /\ last' = [Called("disconnect", k) EXCEPT !.exc = r.exc]
    /\ UNCHANGED <<callbacks, loop>>

SendCommand(k) ==
    /\ Idle
    /\ \E command_type \in OutCommands, command_data \in Payloads, hidOk \in BOOLEAN :
          LET r == send_command(World, k, command_type, FALSE, command_data, hidOk)
          IN  /\ qmk' = r.w.qmk
              /\ connected' = r.w.connected
              /\ last' = [Called("send_command", k) EXCEPT
                              !.command = command_type, !.data = command_data,
                              !.exc = r.exc, !.ret = r.ret, !.writes = r.w.writes]
    /\ UNCHANGED <<callbacks, loop>>

SendActivityPing(k) ==
    /\ Idle
    /\ \E hidOk \in BOOLEAN :
          LET r == send_activity_ping(World, k, hidOk)
          IN  /\ qmk' = r.w.qmk
              /\ connected' = r.w.connected
              /\ last' = [Called("send_activity_ping", k) EXCEPT
                              !.command = KB_Activity_Ping, !.absent = TRUE,
                              !.exc = r.exc, !.ret = r.ret, !.writes = r.w.writes]
    /\ UNCHANGED <<callbacks, loop>>

ParseCommands(k) ==
    /\ Idle
    /\ \E readOk \in BOOLEAN, data \in Buffers, hidOk \in [Keyboards -> BOOLEAN] :
          LET r == parse_commands(World, k, callbacks, readOk, data, hidOk)
          IN  /\ readOk \/ data = <<>>
              /\ Pings(callbacks, readOk, data) \/ hidOk = [kk \in Keyboards |-> TRUE]
              /\ qmk' = r.w.qmk
              /\ connected' = r.w.connected
              /\ last' = [Called("parse_commands", k) EXCEPT
                              !.got = r.got, !.buf = IF r.got THEN data ELSE <<>>,
                              !.exc = r.exc, !.ret = r.ret, !.cb = r.cb,
                              !.writes = r.w.writes, !.reads = r.w.reads]
    /\ UNCHANGED <<callbacks, loop>>

SendCurrentFronter(k) ==
    /\ Idle
    /\ \E qmk_system_id \in FronterIds, hidOk \in BOOLEAN :
          LET r == send_current_fronter(World, k, qmk_system_id, hidOk)
          IN  /\ qmk' = r.w.qmk
              /\ connected' = r.w.connected
              /\ last' = [Called("send_current_fronter", k) EXCEPT
                              !.command = KB_Set_Fronter, !.data = <<qmk_system_id>>,
                              !.exc = r.exc, !.writes = r.w.writes]
    /\ UNCHANGED <<callbacks, loop>>

SetRGBLEDs(k) ==
    /\ Idle
    /\ \E n \in 0..MaxLeds, first_led \in FirstLeds,
          failAt \in 0..((MaxLeds \div leds_per_command) + 1) :
          LET r == set_RGB_LEDs(World, k, Rainbow(n), first_led, failAt)
          IN  /\ qmk' = r.w.qmk
              /\ connected' = r.w.connected
              /\ last' = [Called("set_RGB_LEDs", k) EXCEPT
                              !.command = KB_Set_RGB_LEDs,
                              !.leds = Rainbow(n), !.first = first_led,
                              !.exc = r.exc, !.writes = r.w.writes]
    /\ UNCHANGED <<callbacks, loop>>

Read(k) ==
    /\ Idle
    /\ \E readOk \in BOOLEAN, data \in ShortBuffers :
          LET r == read(World, k, readOk, data)
          IN  /\ readOk \/ data = <<>>
              /\ qmk' = r.w.qmk
              /\ connected' = r.w.connected
              /\ last' = [Called("read", k) EXCEPT
                              !.got = (r.exc = "none"), !.buf = r.ret,
                              !.exc = r.exc, !.reads = r.w.reads]
    /\ UNCHANGED <<callbacks, loop>>

\* the caller has the result of the call and goes on
Return ==
    /\ ~Idle
    /\ pc # "crashed"
    /\ last' = NoCall
    /\ UNCHANGED <<qmk, connected, callbacks, loop>>

Next ==
    \/ \E k \in Keyboards : Connect(k)
    \/ \E k \in Keyboards : Disconnect(k)
    \/ \E k \in Keyboards : SendCommand(k)
    \/ \E k \in Keyboards : SendActivityPing(k)
    \/ \E k \in Keyboards : ParseCommands(k)
    \/ \E k \in Keyboards : Read(k)
    \/ \E k \in Keyboards : SendCurrentFronter(k)
    \/ \E k \in Keyboards : SetRGBLEDs(k)
    \/ Return

Spec == Init /\ [][Next]_vars

(***************************************************************************)
(* The main loop of QMKGear.  Each pass reconnects the keyboards that are  *)
(* not connected, fetches the fronter, sends it to every keyboard and      *)
(* polls every keyboard once.  An exception that nothing catches ends the  *)
(* process: pc = "crashed", with the exception in last.exc.                *)
(***************************************************************************)
\* command_callbacks of QMKGear
command_callbacks == {PC_Notify_Layer_Change, PC_Switch_Fronter, PC_Activity_Ping}

InitLoop == Init /\ callbacks = command_callbacks

\* the for loop over keyboards goes on, or the loop moves to its next part
Advance(next) ==
    IF idx < Len(keyboards)
    THEN /\ idx' = idx + 1 /\ pc' = pc
    ELSE /\ idx' = 1 /\ pc' = next

Crash == pc' = "crashed" /\ idx' = idx

\* command_info == Commands.PC_Switch_Fronter: command_info is None or a
\* dict, and neither is equal to the integer 122
IsSwitchFronter(command_info) == FALSE

\* for keyboard in keyboards: if not keyboard.connected: keyboard.connect()
LoopReconnect ==
    /\ Idle /\ pc = "reconnect"
    /\ LET k == keyboards[idx]
       IN  IF connected[k]
           THEN /\ Advance("fetch")
                /\ UNCHANGED <<qmk, connected, last>>
           ELSE \E enumerated_devices \in Enumerations, deviceOk \in BOOLEAN :
                   LET r == connect(World, k, enumerated_devices, deviceOk)
                   IN  /\ qmk' = r.w.qmk
                       /\ connected' = r.w.connected
                       /\ last' = [Called("connect", k) EXCEPT !.exc = r.exc, !.ret = r.ret]
                       /\ IF r.exc = "none" THEN Advance("fetch") ELSE Crash
    /\ UNCHANGED <<callbacks, fronters_qmk_id>>

\* cached_fronters() raises: the pass is given up after a sleep
LoopFetchFails ==
    /\ Idle /\ pc = "fetch"
    /\ pc' = "reconnect" /\ idx' = 1
    /\ UNCHANGED <<qmk, connected, callbacks, last, fronters_qmk_id>>

\* the first fronter is looked up in the system map (0 when nobody fronts);
\* get_qmkid_by_pkid raises KeyError for a member that is not in the map
LoopFetch ==
    /\ Idle /\ pc = "fetch"
    /\ \/ \E id \in FronterIds :
             /\ fronters_qmk_id' = id
             /\ pc' = "send" /\ idx' = 1
             /\ UNCHANGED last
       \/ /\ last' = [NoCall EXCEPT !.op = "get_qmkid_by_pkid", !.exc = "KeyError"]
          /\ Crash
          /\ UNCHANGED fronters_qmk_id
    /\ UNCHANGED <<qmk, connected, callbacks>>

\* send_current_fronter(keyboards): KeyboardDisconnected is dropped
LoopSend ==
    /\ Idle /\ pc = "send"
    /\ \E hidOk \in BOOLEAN :
          LET k == keyboards[idx]
              r == send_current_fronter(World, k, fronters_qmk_id, hidOk)
          IN  /\ qmk' = r.w.qmk
              /\ connected' = r.w.connected
              /\ last' = [Called("send_current_fronter", k) EXCEPT
                              !.command = KB_Set_Fronter, !.data = <<fronters_qmk_id>>,
                              !.exc = r.exc, !.writes = r.w.writes]
              /\ IF r.exc \in {"none", "KeyboardDisconnected"}
                 THEN Advance("poll") ELSE Crash
    /\ UNCHANGED <<callbacks, fronters_qmk_id>>

\* poll_for_new_commands_fast(keyboards), then the sleep that ends the pass
LoopPoll ==
    /\ Idle /\ pc = "poll"
    /\ \E readOk \in BOOLEAN, data \in ShortBuffers, hidOk \in [Keyboards -> BOOLEAN] :
          LET k == keyboards[idx]
              r == parse_commands(World, k, callbacks, readOk, data, hidOk)
          IN  /\ readOk \/ data = <<>>
              /\ Pings(callbacks, readOk, data) \/ hidOk = [kk \in Keyboards |-> TRUE]
              /\ qmk' = r.w.qmk
              /\ connected' = r.w.connected
              /\ last' = [Called("parse_commands", k) EXCEPT
                              !.got = r.got, !.buf = IF r.got THEN data ELSE <<>>,
                              !.exc = r.exc, !.ret = r.ret, !.cb = r.cb,
                              !.writes = r.w.writes, !.reads = r.w.reads]
              /\ IF r.exc # "none" THEN Crash
                 ELSE IF IsSwitchFronter(r.ret)
                 THEN /\ pc' = "reconnect" /\ idx' = 1
                 ELSE Advance("reconnect")
    /\ UNCHANGED <<callbacks, fronters_qmk_id>>

NextLoop ==
    \/ LoopReconnect
    \/ LoopFetchFails
    \/ LoopFetch
    \/ LoopSend
    \/ LoopPoll
    \/ Return

SpecLoop == InitLoop /\ [][NextLoop]_vars

(***************************************************************************)
(* overflow_int8, the wrap of the hue in chasing_rainbow_leds, applied to  *)
(* the sums that the hue stepping can hand to it.                          *)
(***************************************************************************)
overflow_int8(uint8) == IF uint8 > 255 THEN uint8 - 255 ELSE uint8

OverflowInt8 ==
    /\ Idle
    /\ \E uint8 \in 0..MaxHue :
          last' = [NoCall EXCEPT !.op = "overflow_int8", !.data = <<uint8>>,
                                 !.ret = Some(overflow_int8(uint8))]
    /\ UNCHANGED <<qmk, connected, callbacks, loop>>

NextHue ==
    \/ OverflowInt8
    \/ Return

SpecHue == Init /\ [][NextHue]_vars

TypeOK ==
    /\ qmk \in [Keyboards -> {"None", "open", "closed"}]
    /\ connected \in [Keyboards -> BOOLEAN]
    /\ callbacks \in CallbackSets
    /\ pc \in {"reconnect", "fetch", "send", "poll", "crashed"}
    /\ idx \in 1..Len(keyboards)
    /\ fronters_qmk_id \in FronterIds \cup {-1}

(***************************************************************************)
(* Properties.  They speak of the call recorded in last.                   *)
(***************************************************************************)
SendOps == {"send_command", "send_activity_ping"}

\* the command_data that the recorded send handed to construct_command_packet
SentData == IF last.absent THEN <<0>> ELSE last.data

Fits == 3 + Len(SentData) <= packet_size

\* the hid write of the recorded call on its own keyboard failed
WriteFailed ==
    \E i \in 1..Len(last.writes) : last.writes[i].kb = last.kb /\ ~last.writes[i].ok

\* C1: a send on a session whose connected flag is true, of a packet that
\* fits the capacity and whose hid write fails, raises KeyboardDisconnected
\* and leaves the connected flag false.
C1_FailedSendDisconnects ==
    (last.op \in SendOps /\ last.before /\ Fits /\ WriteFailed)
        => (last.exc = "KeyboardDisconnected" /\ ~connected[last.kb])

C1_Witness ==
    /\ last.op = "send_command" /\ last.before /\ Fits /\ WriteFailed
    /\ ~connected[last.kb]

\* C2: a send of a packet that fits, issued while the connected flag of the
\* session is false, raises KeyboardDisconnected and makes no write call on
\* the transport.
C2_NoWriteWhenDisconnected ==
    (last.op \in SendOps /\ ~last.before /\ Fits /\ AllBytes(SentData))
        => (last.exc = "KeyboardDisconnected" /\ last.writes = <<>>)

\* C3: send_command of a payload with 3 + len(payload) > packet_size raises
\* DataPacketTooLarge, hands nothing to the transport and leaves the
\* connected flag as it was; with 3 + len(payload) <= packet_size it does
\* not raise DataPacketTooLarge.
C3_SizeCheck ==
    last.op = "send_command" =>
        IF 3 + Len(last.data) > packet_size
        THEN /\ last.exc = "DataPacketTooLarge"
             /\ last.writes = <<>>
             /\ connected[last.kb] = last.before
        ELSE last.exc # "DataPacketTooLarge"

C3_Witness ==
    /\ last.op = "send_command" /\ Len(last.data) = packet_size - 2
    /\ last.before /\ connected[last.kb] /\ last.exc = "DataPacketTooLarge"

\* the packets the recorded send handed to the transport
SentPackets == {last.writes[i].packet : i \in 1..Len(last.writes)}

\* C4 as claimed: every packet a send hands to the transport is report id 0,
\* the command, the length of the payload and the payload, and a command
\* sent without payload carries data length 0.
C4_LengthOfLogicalPayload ==
    last.op \in SendOps =>
        \A packet \in SentPackets :
            LET payload == IF last.absent THEN <<>> ELSE last.data
            IN  packet = <<0, last.command, Len(payload)>> \o payload

\* C4 as amended: every packet a send hands to the transport is report id 0,
\* the command, the length of the payload and the payload, where a command
\* sent without payload carries the one-byte payload [0] and data length 1.
C4_PacketLayout ==
    last.op \in SendOps =>
        \A packet \in SentPackets :
            /\ Len(packet) = 3 + Len(SentData)
            /\ packet[1] = 0
            /\ packet[2] = last.command
            /\ packet[3] = Len(SentData)
            /\ \A i \in 1..Len(SentData) : packet[3 + i] = SentData[i]
            /\ last.absent => packet = <<0, last.command, 1, 0>>

C4_Witness ==
    /\ last.op = "send_activity_ping"
    /\ SentPackets = {<<0, KB_Activity_Ping, 1, 0>>}

Parsed == last.op = "parse_commands" /\ last.got

\* C5: parse_commands on an empty read returns None, raises nothing, calls no
\* callback, writes nothing and leaves the connected flag as it was; on a
\* read of one or two bytes it raises CorruptResponse and calls no callback,
\* whatever the bytes are.
C5_ShortReads ==
    Parsed =>
        /\ Len(last.buf) = 0 =>
              /\ last.exc = "none" /\ last.ret = None /\ last.cb = <<>>
              /\ last.writes = <<>> /\ connected[last.kb] = last.before
        /\ Len(last.buf) \in {1, 2} =>
              (last.exc = "CorruptResponse" /\ last.cb = <<>>)

C5_Witness ==
    /\ Parsed /\ Len(last.buf) = 2 /\ last.buf[1] = 124
    /\ last.exc = "CorruptResponse"

\* C6: parse_commands on a read of three bytes or more whose command byte is
\* neither 0 nor one of 120..124 raises UnknownCommand and calls no callback.
C6_UnknownCommand ==
    (Parsed /\ Len(last.buf) >= 3 /\ last.buf[1] \notin ({0} \cup (120..124)))
        => (last.exc = "UnknownCommand" /\ last.cb = <<>>)

C6_Witness ==
    /\ Parsed /\ Len(last.buf) >= 3 /\ last.buf[1] = 1
    /\ last.exc = "UnknownCommand"

\* byte i (from 0) of the little-endian representation of the integer n
ByteOf(n, i) ==
    IF (i \div 2) + 1 > Len(n) THEN 0
    ELSE (n[(i \div 2) + 1] \div (IF i % 2 = 0 THEN 1 ELSE 256)) % 256

\* the read is a layer change with data_length N in 1..4 and N payload bytes
LayerRead ==
    /\ Parsed /\ Len(last.buf) >= 3 /\ last.buf[1] = 123
    /\ last.buf[2] \in 1..4 /\ Len(last.buf) >= 2 + last.buf[2]

\* C7: for a layer change with data_length N in 1..4 the decoded layer mask is
\* the unsigned little-endian integer of the first N payload bytes, whatever
\* follows them: its bytes 0..N-1 are the payload bytes and the higher bytes
\* are 0; [1, 2] gives 0x0201 and [255] gives 255.
C7_LayerMask ==
    LayerRead =>
        /\ last.exc = "none"
        /\ Len(last.ret) = 1
        /\ last.ret[1].command = 123
        /\ LET N == last.buf[2]
               layer_mask == last.ret[1].data[1]
           IN  /\ layer_mask = Normal(layer_mask)
               /\ \A i \in 0..(N - 1) : ByteOf(layer_mask, i) = last.buf[3 + i]
               /\ \A i \in N..(MaxMask + 1) : ByteOf(layer_mask, i) = 0
               /\ (N = 2 /\ last.buf[3] = 1 /\ last.buf[4] = 2) => layer_mask = <<513>>
               /\ (N = 1 /\ last.buf[3] = 255) => layer_mask = <<255>>
               /\ last.cb # <<>> => last.cb[1].args = <<layer_mask>>

C7_Witness ==
    /\ LayerRead /\ last.buf = <<123, 2, 1, 2, 255>>
    /\ last.ret[1].data = <<(<<513>>)>>
    /\ last.cb # <<>>

\* two reads agree on the command, on data_length and on the payload
Agree(a, b) ==
    /\ Len(a) >= 3 /\ Len(b) >= 3
    /\ a[1] = b[1] /\ a[2] = b[2]
    /\ Len(a) >= 2 + a[2] /\ Len(b) >= 2 + b[2]
    /\ \A i \in 1..a[2] : a[2 + i] = b[2 + i]

\* C8: a read that agrees with the decoded one on the command byte, on
\* data_length and on the first data_length payload bytes decodes to the same
\* exception, the same command info and the same callback call.
C8_PaddingIgnored ==
    (Parsed /\ Len(last.buf) >= 3 /\ last.buf[1] \in 120..124) =>
        \A other \in Buffers :
            Agree(last.buf, other) =>
                decode(other, callbacks) =
                    [exc |-> last.exc, ret |-> last.ret, cb |-> last.cb]

\* the payload that a decoded command info stands for
RECURSIVE BytesOf(_, _)
BytesOf(n, len) ==
    IF len = 0 THEN <<>> ELSE BytesOf(n, len - 1) \o <<ByteOf(n, len - 1)>>

Recovers(d, command, payload) ==
    /\ d.exc = "none"
    /\ Len(d.ret) = 1
    /\ d.ret[1].command = command
    /\ IF command = PC_Notify_Layer_Change
       THEN BytesOf(d.ret[1].data[1], Len(payload)) = payload
       ELSE d.ret[1].data = payload

\* C9: decoding the packet of a send_command that fits, without its report
\* id byte, recovers the command and the payload.
C9_RoundTrip ==
    (last.op = "send_command" /\ Fits /\ AllBytes(last.data)) =>
        LET packet == construct_command_packet(last.command, last.data)
        IN  Recovers(decode(Tail(packet), callbacks), last.command, last.data)

\* C10: a connect that does not open a device returns False, raises nothing
\* and leaves the connected flag false; a connect that returns True leaves
\* the flag true and a handle held.
C10_ConnectNeverRaises ==
    last.op = "connect" =>
        /\ last.exc = "none"
        /\ last.ret = Some(TRUE) => (connected[last.kb] /\ qmk[last.kb] = "open")
        /\ last.ret # Some(TRUE) => (last.ret = Some(FALSE) /\ ~connected[last.kb])

\* the hid read of the recorded call failed
ReadFailed ==
    \E i \in 1..Len(last.reads) : last.reads[i].kb = last.kb /\ ~last.reads[i].ok

\* C11: a read whose hid read fails raises KeyboardDisconnected and leaves
\* the connected flag false; a read on a session that holds no handle raises
\* KeyboardDisconnected without a call on the transport.
C11_FailedReadDisconnects ==
    last.op = "read" =>
        /\ ReadFailed => (last.exc = "KeyboardDisconnected" /\ ~connected[last.kb])
        /\ qmk[last.kb] = "None" =>
              /\ last.exc = "KeyboardDisconnected" /\ last.reads = <<>>
              /\ ~connected[last.kb]

C11_Witness ==
    /\ last.op = "read" /\ last.before /\ ReadFailed
    /\ last.exc = "KeyboardDisconnected" /\ ~connected[last.kb]

\* C12: in every reachable state a session holds an open transport handle
\* only if its connected flag is true.
C12_HandleOnlyWhileConnected ==
    \A k \in Keyboards : ~connected[k] => qmk[k] # "open"

\* the read is a well-formed packet of a Device-to-PC command: the header, a
\* data_length that the command allows, and data_length payload bytes
WellFormed(buf) ==
    /\ Len(buf) >= 3
    /\ buf[1] \in 120..124
    /\ Len(buf) >= 2 + buf[2]
    /\ buf[1] = 122 => buf[2] = 1
    /\ buf[1] = 123 => buf[2] \in 1..4
    /\ buf[1] = 124 => buf[2] = 0

\* C13: parse_commands on a well-formed packet whose command has no callback
\* raises nothing, calls no callback, writes nothing and leaves the connected
\* flag as it was.
C13_NoHandlerNoEffect ==
    (Parsed /\ WellFormed(last.buf) /\ last.buf[1] \notin callbacks) =>
        /\ last.exc = "none" /\ last.cb = <<>> /\ last.writes = <<>>
        /\ connected[last.kb] = last.before

\* C14: parse_commands on a well-formed packet of any of the commands
\* 120..124 that has a callback calls that callback exactly once.
C14_UniformDispatch ==
    (Parsed /\ WellFormed(last.buf) /\ last.buf[1] \in callbacks) =>
        (Len(last.cb) = 1 /\ last.cb[1].command = last.buf[1])

LedCall == last.op = "set_RGB_LEDs"

\* the number of LEDs that packet i of the recorded call carries
LedsIn(i) == last.writes[i].packet[3] \div 4

\* C15: every packet that set_RGB_LEDs hands to the transport is a
\* KB_Set_RGB_LEDs packet of at most 7 LEDs whose data_length is a multiple
\* of 4 and whose length is at most packet_size, and set_RGB_LEDs never
\* raises DataPacketTooLarge.
C15_LedPacketsFit ==
    LedCall =>
        /\ last.exc # "DataPacketTooLarge"
        /\ \A i \in 1..Len(last.writes) :
              LET packet == last.writes[i].packet
              IN  /\ packet[2] = 3
                  /\ packet[3] % 4 = 0
                  /\ packet[3] \div 4 <= 7
                  /\ Len(packet) = 3 + packet[3]
                  /\ Len(packet) <= packet_size

C15_Witness ==
    /\ LedCall /\ Len(last.leds) = MaxLeds /\ last.exc = "none"
    /\ \E i \in 1..Len(last.writes) : LedsIn(i) = 7

\* everything after the three header bytes of the packets written, in order
RECURSIVE SentLedData(_)
SentLedData(i) ==
    IF i = 0 THEN <<>> ELSE SentLedData(i - 1) \o Drop(last.writes[i].packet, 3)

RECURSIVE LedsBefore(_)
LedsBefore(i) == IF i <= 1 THEN 0 ELSE LedsBefore(i - 1) + LedsIn(i - 1)

\* C16: when no send fails, the LED tuples of the packets that set_RGB_LEDs
\* writes are, in write order, (s, c_0), (s+1, c_1), ..., (s+n-1, c_(n-1)),
\* and the first LED index of a packet is s plus the number of LEDs in the
\* packets before it.
C16_LedsInOrder ==
    (LedCall /\ last.exc = "none") =>
        LET sent == SentLedData(Len(last.writes))
            n == Len(last.leds)
        IN  /\ Len(sent) = 4 * n
            /\ \A i \in 0..(n - 1) :
                  /\ sent[4 * i + 1] = last.first + i
                  /\ sent[4 * i + 2] = last.leds[i + 1].Hue
                  /\ sent[4 * i + 3] = last.leds[i + 1].Sat
                  /\ sent[4 * i + 4] = last.leds[i + 1].Val
            /\ \A j \in 1..Len(last.writes) :
                  LedsIn(j) > 0 => last.writes[j].packet[4] = last.first + LedsBefore(j)

C16_Witness ==
    /\ LedCall /\ last.exc = "none" /\ Len(last.leds) = 12 /\ last.first = 3
    /\ Len(last.writes) = 2 /\ last.writes[2].packet[4] = 10

\* the least number of packets of 7 LEDs that hold n LEDs
Ceil7(n) == (n + 6) \div 7

\* C17: set_RGB_LEDs ends after at most ceil(n / 7) packets for n >= 1 LEDs;
\* when no send fails it writes exactly ceil(n / 7) packets, every packet but
\* the last with exactly 7 LEDs and the last with at least one; 12 LEDs go
\* out as LEDs 0..6 and then LEDs 7..11.
C17_PacketCount ==
    (LedCall /\ Len(last.leds) >= 1) =>
        LET n == Len(last.leds)
            packets == Len(last.writes)
        IN  /\ packets <= Ceil7(n)
            /\ last.exc = "none" =>
                  /\ packets = Ceil7(n)
                  /\ \A i \in 1..(packets - 1) : LedsIn(i) = 7
                  /\ LedsIn(packets) >= 1
                  /\ n = 12 =>
                        /\ packets = 2
                        /\ LedsIn(1) = 7 /\ last.writes[1].packet[4] = last.first
                        /\ LedsIn(2) = 5 /\ last.writes[2].packet[4] = last.first + 7

C17_Witness ==
    /\ LedCall /\ last.exc = "none" /\ Len(last.leds) = 14
    /\ Len(last.writes) = 2 /\ LedsIn(2) = 7

Rejected == {"CorruptResponse", "UnknownCommand"}

\* C18: a parse_commands that rejects its read with CorruptResponse or
\* UnknownCommand leaves the connected flag and the handle of every session
\* as they were, calls no callback and writes nothing.
C18_RejectChangesNothing ==
    [][(last'.op = "parse_commands" /\ last'.exc \in Rejected) =>
           /\ connected' = connected
           /\ qmk' = qmk
           /\ last'.cb = <<>>
           /\ last'.writes = <<>>]_vars

C18_Witness ==
    /\ Parsed /\ last.exc = "UnknownCommand" /\ last.before
    /\ connected[last.kb] /\ qmk[last.kb] = "open"

\* C19: no read that parse_commands rejects with CorruptResponse or
\* UnknownCommand ends the main loop: the loop never stops on such an error.
C19_ProtocolErrorStopsNothing ==
    ~(pc = "crashed" /\ last.exc \in Rejected)

\* the calls that the main loop and its handlers make on a session
LoopOps == {"send_current_fronter", "send_activity_ping", "set_RGB_LEDs", "parse_commands"}

\* C20: every packet that send_current_fronter, send_activity_ping,
\* set_RGB_LEDs and the handlers run by parse_commands hand to the transport
\* has report id 0 and a command byte in 1..4.
C20_OutboundCommands ==
    last.op \in LoopOps =>
        \A i \in 1..Len(last.writes) :
            /\ last.writes[i].packet[1] = 0
            /\ last.writes[i].packet[2] \in 1..4

C20_Witness ==
    /\ Parsed /\ Len(last.buf) = 3 /\ last.buf[1] = PC_Activity_Ping
    /\ Len(last.writes) = 1
    /\ last.writes[1].kb # last.kb
    /\ last.writes[1].packet = <<0, 4, 1, 0>>

\* a step of the main loop that polls a session
Polled == pc = "poll" /\ last'.op = "parse_commands"

\* C21: when the poll of a session yields a switch-fronter request, the
\* polling function returns at once: the sessions after it in the list are
\* not polled in this pass and the loop goes on to its next pass.
C21_SwitchEndsPolling ==
    [][(/\ Polled
        /\ last'.exc = "none"
        /\ last'.ret # None
        /\ last'.ret[1].command = PC_Switch_Fronter
        /\ idx < Len(keyboards)) => pc' = "reconnect"]_vars

\* C22: in one pass the sessions are polled in the order of the keyboard
\* list, with at most one read each, all reads of a poll are reads of the
\* polled session, and a callback runs only after the read of its own
\* session has returned, within the poll of that session.
C22_OneReadPerSessionInOrder ==
    [][Polled =>
          /\ last'.kb = keyboards[idx]
          /\ Len(last'.reads) <= 1
          /\ \A i \in 1..Len(last'.reads) : last'.reads[i].kb = last'.kb
          /\ last'.cb # <<>> => last'.reads = <<[kb |-> last'.kb, ok |-> TRUE]>>
          /\ pc' = "poll" => idx' = idx + 1]_vars

C22_Witness ==
    /\ pc = "reconnect"
    /\ last.op = "parse_commands" /\ last.kb = keyboards[Len(keyboards)]
    /\ last.cb # <<>>
    /\ last.reads = <<[kb |-> last.kb, ok |-> TRUE]>>

\* C23: every pass of the main loop calls connect on each session whose
\* connected flag is false, and on no session whose flag is true, before it
\* fetches the fronter; a connect that finds a matching device in the
\* enumeration (it does not return False) leaves the session connected and
\* the loop running.
C23_ReconnectWhenPresent ==
    [][/\ (pc = "reconnect" /\ Idle /\ ~connected[keyboards[idx]]) =>
              (last'.op = "connect" /\ last'.kb = keyboards[idx])
       /\ last'.op = "connect" => ~connected[last'.kb]
       /\ (pc = "reconnect" /\ last'.op = "connect" /\ last'.ret # Some(FALSE)) =>
              (connected'[last'.kb] /\ pc' # "crashed")]_vars

\* the writes of the last call that went to keyboard kk
WritesTo(kk) == {i \in 1..Len(last'.writes) : last'.writes[i].kb = kk}

C25_FronterToEveryConnected ==
    [][(pc = "send" /\ last'.op = "send_current_fronter" /\ connected[last'.kb]) =>
          /\ Len(last'.writes) = 1
          /\ last'.writes[1].kb = last'.kb
          /\ last'.writes[1].packet = <<0, KB_Set_Fronter, 1, fronters_qmk_id>>
          /\ pc' # "crashed"]_vars

\* C26: overflow_int8 wraps as an 8-bit unsigned integer: for every x in
\* 0..510 its result is x mod 256 and lies in 0..255.
C26_WrapsMod256 ==
    last.op = "overflow_int8" =>
        /\ last.ret = Some(last.data[1] % 256)
        /\ last.ret[1] \in 0..255

\* C27: a read [122, n, id, ...] with any byte id, on a session that has a
\* callback for PC_Switch_Fronter, raises nothing, calls the callback with
\* id and returns the command info of 122 and id.
C27_AnyMemberId ==
    (/\ Parsed /\ Len(last.buf) >= 3 /\ last.buf[1] = PC_Switch_Fronter
     /\ PC_Switch_Fronter \in callbacks) =>
        /\ last.exc = "none"
        /\ last.cb = <<[command |-> PC_Switch_Fronter, args |-> <<last.buf[3]>>]>>
        /\ last.ret = Info(PC_Switch_Fronter, Some(last.buf[3]))

\* the handles that session k has opened and not closed: qmk[k] is "open"
\* from hid.Device(path=...) until disconnect closes it
Unclosed(k) == IF qmk[k] = "open" THEN 1 ELSE 0

\* C28: when open acquires a handle (connect returns True), the handle the
\* session held before has been closed: the handles opened and not closed by
\* the session, the new one included, are never more than one.
C28_OldHandleReleased ==
    [][(last'.op = "connect" /\ last'.ret = Some(TRUE)) =>
           Unclosed(last'.kb) + 1 <= 1]_vars

\* C29: when the read of a polled session fails, parse_commands returns
\* None and raises nothing, no callback runs, the session is marked
\* disconnected, and the loop goes on to poll the next session of the list.
C29_ReadFailureContained ==
    [][(Polled /\ ~last'.got) =>
          /\ last'.exc = "none"
          /\ last'.ret = None
          /\ last'.cb = <<>>
          /\ ~connected'[last'.kb]
          /\ pc' # "crashed"
          /\ idx < Len(keyboards) => (pc' = "poll" /\ idx' = idx + 1)]_vars

C29_Witness ==
    /\ pc = "poll" /\ idx = 2
    /\ last.op = "parse_commands" /\ last.kb = keyboards[1]
    /\ last.reads = <<[kb |-> last.kb, ok |-> FALSE]>>
    /\ last.before /\ ~connected[last.kb]

====
